---- MODULE Spec2Model ----
(***************************************************************************)
(* dabug: an execution-tracing helper.  Lines are annotated with the call  *)
(* site and a context stack, and either written at once (auto-flush) or    *)
(* buffered and flushed as one aligned block.                              *)
(*                                                                         *)
(* Strings are sequences of one-character strings, so that formatting,     *)
(* padding and joining are computed as the code computes them.             *)
(***************************************************************************)
EXTENDS Integers, Sequences, FiniteSets, TLC

(* ------------------------------ bounds --------------------------------- *)
\* line objects created in one behaviour
MaxLines == 2
\* calls of the setters and of the context operations in one behaviour
MaxCalls == 2
\* entries of a context stack the program has pushed before it is observed
MaxCtx == 3

(* ------------------------------ strings -------------------------------- *)
NL == "\n"
SP == " "
Digits == <<"0", "1", "2", "3", "4", "5", "6", "7", "8", "9">>

RECURSIVE Itoa(_)
\* fmt's %d of a non-negative int
Itoa(n) == IF n < 10 THEN <<Digits[n + 1]>> ELSE Itoa(n \div 10) \o <<Digits[(n % 10) + 1]>>

RECURSIVE Spaces(_)
Spaces(n) == IF n <= 0 THEN <<>> ELSE <<SP>> \o Spaces(n - 1)

\* fmt's %-Ns (width 0 is a plain %s): left-justified, padded with spaces
PadRight(s, width) == s \o Spaces(width - Len(s))

HasPrefix(s, p) == Len(p) <= Len(s) /\ SubSeq(s, 1, Len(p)) = p

\* strings.TrimPrefix
TrimPrefix(s, p) == IF HasPrefix(s, p) THEN SubSeq(s, Len(p) + 1, Len(s)) ELSE s

\* index of the last "/" of a path, 0 when there is none
LastSlash(path) ==
    LET idx == {k \in 1..Len(path) : path[k] = "/"}
    IN  IF idx = {} THEN 0 ELSE CHOOSE k \in idx : \A j \in idx : j <= k

\* filepath.Dir on the clean paths of the model
Dir(path) ==
    LET k == LastSlash(path)
    IN  IF k = 0 THEN <<".">> ELSE IF k = 1 THEN <<"/">> ELSE SubSeq(path, 1, k - 1)

RECURSIVE SplitFrom(_, _, _)
\* the parts of s from index start on, the scan being at index k
SplitFrom(s, k, start) ==
    IF k > Len(s) THEN <<SubSeq(s, start, Len(s))>>
    ELSE IF s[k] = NL THEN <<SubSeq(s, start, k - 1)>> \o SplitFrom(s, k + 1, k + 1)
    ELSE SplitFrom(s, k + 1, start)

\* strings.Split(s, "\n")
Split(s) == SplitFrom(s, 1, 1)

\* strings.Join(parts, sep)
RECURSIVE Join(_, _)
Join(parts, sep) ==
    IF Len(parts) = 0 THEN <<>>
    ELSE IF Len(parts) = 1 THEN parts[1]
    ELSE parts[1] \o sep \o Join(Tail(parts), sep)

(* --------------------------- program constants ------------------------- *)
sectionBeg == <<"-", "-", "-", "-", "-">>
sectionEnd == <<"=", "=", "=", "=", "=">>
\* the prefix init() gives the default instance
DefaultLinePrefix == <<"D", "A", "B", "U", "G", ":", " ">>
\* stackSkips of a constructed instance
NewStackSkips == 4

(* ------------------------------ inputs --------------------------------- *)
\* the process-wide default instance and one instance built with New()
Inst == {"def", "d1"}
Writers == {"stdout", "w2"}
\* a writer whose Write returns an error and delivers nothing (a closed file)
FailingWriters == {"closed"}
Prefixes == {<<"P">>}
Keys == {"a", "b"}
Values == {"x"}
\* formatted messages (formats without verbs); the empty one renders like Here
Msgs == {<<"m">>}
\* arguments of Objs, each value given by its %#v representation
Things == {<< <<"7">>, <<"t", "{", "1", "}">> >>}
\* texts returned by debug.Stack()
StackTexts == {<<"g", "\n">>}
Nums == {0, 1}
\* the source file of the package and the user's call sites
PkgFile == <<"/", "p", "/", "d", ".", "g", "o">>
Sites == { [File |-> <<"/", "u", "/", "m", ".", "g", "o">>, Function |-> <<"main", "run">>, Line |-> 12] }
\* call sites in two directories: the user's program, and a file in the
\* directory of the package (its tests)
CallSites ==
    Sites \cup { [File |-> <<"/", "p", "/", "t", ".", "g", "o">>, Function |-> <<"dabug", "TestHere">>, Line |-> 17] }
\* stack dumps of two and of three lines, and the values of num
StackDumps == {<<"g", "\n">>, <<"g", "\n", "h", "\n">>}
StackNums == {-1, 0, 1, 2, 3}
ZeroFrame == [File |-> <<>>, Function |-> <<>>, Line |-> 0]
None == "none"
Threads == {"t1", "t2"}
Idle == [inst |-> None]

VARIABLES
    alive,       \* the instances that exist
    lines,       \* Dabugger.lines: pending lines of each instance
    linesMutex,  \* Dabugger.linesMutex: the holder, or None
    contexts,    \* Dabugger.contexts
    writer,      \* Dabugger.writer
    linePrefix,  \* Dabugger.linePrefix
    autoFlush,   \* Dabugger.autoFlush
    stackSkips,  \* Dabugger.stackSkips
    sink,        \* what each writer has received: one entry per Write call
    nlines,      \* line objects allocated so far
    madeFor,     \* for each line object, the writer configured when it was created
    ncalls,      \* calls of the setters and of the context operations so far
    panicked,    \* a run-time panic was raised
    last,        \* the call that was made last, with the state it was made in
    pc,          \* where each thread is in the call it is making
    loc,         \* the local variables of each thread's call
    buffered     \* the line objects for which appendLine read autoFlush = false

prog == <<alive, lines, linesMutex, contexts, writer, linePrefix, autoFlush, stackSkips, sink, panicked>>
vars == <<alive, lines, linesMutex, contexts, writer, linePrefix, autoFlush, stackSkips, sink,
          nlines, madeFor, ncalls, panicked, last, pc, loc, buffered>>
\* the allocation of line objects
alloc == <<nlines, madeFor>>
\* the threads' part of the state
thr == <<pc, loc, buffered>>

(* ------------------------------ source --------------------------------- *)
\* source.String
SourceString(s) == s.File \o <<":">> \o Itoa(s.Line)

\* The call stack inside getSource, innermost frame first, for an entry point
\* (Msg, Here, Objs, Stack) called at `site`: the package-level functions
\* forward to the method of the default instance, which adds one frame.
CallStack(viaFacade, entry, site) ==
    << [File |-> <<"r">>, Function |-> <<"runtime", "Callers">>, Line |-> 1],
       [File |-> PkgFile, Function |-> <<"Dabugger", "getSource">>, Line |-> 326],
       [File |-> PkgFile, Function |-> <<"Dabugger", "append">>, Line |-> 289],
       [File |-> PkgFile, Function |-> <<"Dabugger", entry>>, Line |-> 149] >>
    \o (IF viaFacade THEN << [File |-> PkgFile, Function |-> <<"dabug", entry>>, Line |-> 145] >>
                     ELSE <<>>)
    \o << site, [File |-> <<"r">>, Function |-> <<"runtime", "main">>, Line |-> 2] >>

\* runtime.Callers(skip, pcs[:1]) followed by CallersFrames(...).Next()
Callers(stack, skip) == IF skip + 1 <= Len(stack) THEN stack[skip + 1] ELSE ZeroFrame

\* runtime.Caller(skip): skip 0 is the caller of Caller
Caller(stack, skip) == Callers(stack, skip + 1)

\* a getSource that skips the frames of a constructed instance on every instance
getSourceFixedSkip(i, stack) ==
    LET f     == Callers(stack, NewStackSkips)
        fpath == Caller(stack, 3).File
        file  == TrimPrefix(TrimPrefix(f.File, Dir(fpath)), <<"/">>)
    IN  [File |-> file, Function |-> f.Function, Line |-> f.Line]

\* Dabugger.getSource
getSource(i, stack) ==
    LET f     == Callers(stack, stackSkips[i])
        fpath == Caller(stack, 3).File
        file  == TrimPrefix(TrimPrefix(f.File, Dir(fpath)), <<"/">>)
    IN  [File |-> file, Function |-> f.Function, Line |-> f.Line]

(* ------------------------------ prefix --------------------------------- *)
RECURSIVE CtxLoopNewestFirst(_, _)
\* a loop that walks d.contexts from the newest entry to the oldest
CtxLoopNewestFirst(cs, k) ==
    IF k = 0 THEN <<>>
    ELSE <<cs[k].key, ":", cs[k].value>>
         \o (IF k - 1 > 0 THEN <<",", SP>> ELSE <<>>)
         \o CtxLoopNewestFirst(cs, k - 1)

RECURSIVE CtxLoop(_, _)
\* the loop of genPrefix over d.contexts[0..k-1]
CtxLoop(cs, k) ==
    IF k = 0 THEN <<>>
    ELSE CtxLoop(cs, k - 1)
         \o (IF k - 1 > 0 THEN <<",", SP>> ELSE <<>>)
         \o <<cs[k].key, ":", cs[k].value>>

\* the context part built by genPrefix
CtxString(cs) ==
    (IF Len(cs) > 0 THEN <<SP, "(">> ELSE <<>>)
    \o CtxLoop(cs, Len(cs))
    \o (IF Len(cs) > 0 THEN <<")">> ELSE <<>>)

\* a genPrefix that reads the line prefix of the default instance
genPrefixOfDefault(i, src) ==
    linePrefix["def"] \o SourceString(src) \o CtxString(contexts[i]) \o <<SP>>

\* Dabugger.genPrefix: the value assigned to line.prefix
genPrefix(i, src) == linePrefix[i] \o SourceString(src) \o CtxString(contexts[i]) \o <<SP>>

(* ------------------------------ rendering ------------------------------ *)
\* a lineStr without the test of len(l.msg)
lineStrAlwaysSuffix(width, l) == PadRight(l.prefix, width) \o <<"-", SP>> \o l.msg

\* lineStr(lFmt, l), lFmt being "%s" (width 0) or "%-<width>s"
lineStr(width, l) ==
    IF Len(l.msg) = 0 THEN PadRight(l.prefix, width)
    ELSE PadRight(l.prefix, width) \o <<"-", SP>> \o l.msg

RECURSIVE MaxPrefixLen(_, _)
\* the first loop of Flush, from maxPrefixLen := -1
MaxPrefixLen(ls, k) ==
    IF k = 0 THEN -1
    ELSE LET m == MaxPrefixLen(ls, k - 1)
         IN  IF Len(ls[k].prefix) > m THEN Len(ls[k].prefix) ELSE m

RECURSIVE RenderLinesBackwards(_, _, _)
\* a loop that walks d.lines from the last line to the first
RenderLinesBackwards(ls, k, width) ==
    IF k = 0 THEN <<>>
    ELSE lineStr(width, ls[k]) \o <<NL>> \o RenderLinesBackwards(ls, k - 1, width)

RECURSIVE RenderLines(_, _, _)
\* the second loop of Flush
RenderLines(ls, k, width) ==
    IF k = 0 THEN <<>> ELSE RenderLines(ls, k - 1, width) \o lineStr(width, ls[k]) \o <<NL>>

\* a Flush that renders each line with a prefix computed when it flushes:
\* as Block below, the stored prefixes replaced
BlockWithFreshPrefix(i, ls) ==
    LET fresh == [k \in 1..Len(ls) |-> [ls[k] EXCEPT !.prefix = genPrefix(i, ls[k].src)]]
    IN  linePrefix[i] \o sectionBeg \o <<NL>>
        \o RenderLines(fresh, Len(fresh), MaxPrefixLen(fresh, Len(fresh)))
        \o linePrefix[i] \o sectionEnd \o <<NL>>

\* the string Flush builds in sb from the pending lines ls
Block(i, ls) ==
    linePrefix[i] \o sectionBeg \o <<NL>>
    \o RenderLines(ls, Len(ls), MaxPrefixLen(ls, Len(ls)))
    \o linePrefix[i] \o sectionEnd \o <<NL>>

Ptrs(ls) == [k \in 1..Len(ls) |-> ls[k].ptr]

\* one Write call on writer w: the text, and the line objects it renders; the
\* value Fprint returns is dropped, so a failed Write only delivers nothing
WriteTo(snk, w, text, ptrs, isBlock) ==
    IF w \in FailingWriters THEN snk
    ELSE [snk EXCEPT ![w] = Append(@, [text |-> text, ptrs |-> ptrs, block |-> isBlock])]

(* ------------------------------ state ---------------------------------- *)
\* a New() that always gives the prefix init() gives the default instance
NewDabuggerFixedPrefix(defPrefix) ==
    [writer |-> "stdout", autoFlush |-> FALSE, stackSkips |-> NewStackSkips,
     linePrefix |-> DefaultLinePrefix]

\* New(): the fields of the returned instance
NewDabugger(defPrefix) ==
    [writer |-> "stdout", autoFlush |-> FALSE, stackSkips |-> NewStackSkips,
     linePrefix |-> IF defPrefix # <<>> THEN defPrefix ELSE <<>>]

\* the package variable defDabugger after init()
InitDefault ==
    LET d == NewDabugger(<<>>)
    IN  [d EXCEPT !.autoFlush = TRUE, !.linePrefix = DefaultLinePrefix, !.stackSkips = @ + 1]

Init ==
    /\ alive = {"def"}
    /\ lines = [i \in Inst |-> <<>>]
    /\ linesMutex = [i \in Inst |-> None]
    /\ contexts = [i \in Inst |-> <<>>]
    /\ writer = [i \in Inst |-> IF i = "def" THEN InitDefault.writer ELSE None]
    /\ linePrefix = [i \in Inst |-> IF i = "def" THEN InitDefault.linePrefix ELSE <<>>]
    /\ autoFlush = [i \in Inst |-> IF i = "def" THEN InitDefault.autoFlush ELSE FALSE]
    /\ stackSkips = [i \in Inst |-> IF i = "def" THEN InitDefault.stackSkips ELSE 0]
    /\ sink = [w \in Writers |-> <<>>]
    /\ nlines = 0
    /\ madeFor = <<>>
    /\ ncalls = 0
    /\ panicked = FALSE
    /\ last = [op |-> "init", inst |-> "def", pre |-> 0, ctx |-> 0, arg |-> None]
    /\ pc = [t \in Threads |-> "idle"]
    /\ loc = [t \in Threads |-> Idle]
    /\ buffered = {}

\* the record of a call on instance i: the lengths of its pending list and of
\* its context stack when the call is made
Call(op, i, arg) ==
    [op |-> op, inst |-> i, pre |-> Len(lines[i]), ctx |-> Len(contexts[i]), arg |-> arg]

Running(i) == ~panicked /\ i \in alive

\* one more call of a setter or of a context operation
Counted == ncalls < MaxCalls /\ ncalls' = ncalls + 1

\* the part of the state an emit or a flush changes
Here0 == [sink |-> sink, lines |-> lines, nlines |-> nlines]

(* ------------------------------ flush ---------------------------------- *)
\* Dabugger.clearLines
clearLines(i, ls) == [ls EXCEPT ![i] = <<>>]

\* a Flush that writes to the writer of the default instance
FlushStToDefaultWriter(i, st) ==
    IF Len(st.lines[i]) = 0 THEN st
    ELSE [st EXCEPT !.sink = WriteTo(st.sink, writer["def"], Block(i, st.lines[i]),
                                     Ptrs(st.lines[i]), TRUE),
                    !.lines = clearLines(i, st.lines)]

\* a Flush without the early return on an empty pending list
FlushStAlways(i, st) ==
    [st EXCEPT !.sink = WriteTo(st.sink, writer[i], Block(i, st.lines[i]),
                                Ptrs(st.lines[i]), TRUE),
               !.lines = clearLines(i, st.lines)]

\* a Flush that returns at a failed write, before clearLines
FlushStKeepsLinesOnError(i, st) ==
    IF Len(st.lines[i]) = 0 \/ writer[i] \in FailingWriters THEN st
    ELSE [st EXCEPT !.sink = WriteTo(st.sink, writer[i], Block(i, st.lines[i]),
                                     Ptrs(st.lines[i]), TRUE),
                    !.lines = clearLines(i, st.lines)]

\* Dabugger.Flush, the mutex taken and released inside
FlushSt(i, st) ==
    IF Len(st.lines[i]) = 0 THEN st
    ELSE [st EXCEPT !.sink = WriteTo(st.sink, writer[i], Block(i, st.lines[i]),
                                     Ptrs(st.lines[i]), TRUE),
                    !.lines = clearLines(i, st.lines)]

\* a flushLine that writes the line as a block of its own, between delimiters
flushLineAsBlock(i, snk, l) == WriteTo(snk, writer[i], Block(i, <<l>>), <<l.ptr>>, TRUE)

\* Dabugger.flushLine
flushLine(i, snk, l) == WriteTo(snk, writer[i], lineStr(0, l) \o <<NL>>, <<l.ptr>>, FALSE)

\* Dabugger.appendLine
appendLine(i, st, l0) ==
    LET l == [l0 EXCEPT !.prefix = genPrefix(i, l0.src)]
    IN  IF autoFlush[i] THEN [st EXCEPT !.sink = flushLine(i, st.sink, l)]
        ELSE [st EXCEPT !.lines[i] = Append(@, l)]

\* Dabugger.appendMsg and Dabugger.appendEmpty (msg = ""): a new line object
appendMsg(i, st, msg, stack) ==
    appendLine(i, [st EXCEPT !.nlines = @ + 1],
               [ptr |-> st.nlines + 1, msg |-> msg, src |-> getSource(i, stack), prefix |-> <<>>])

\* the state after an emit or a flush of instance i
Becomes(i, st) ==
    /\ st.nlines <= MaxLines
    /\ sink' = st.sink
    /\ lines' = st.lines
    /\ nlines' = st.nlines
    /\ madeFor' = madeFor \o [k \in 1..(st.nlines - nlines) |-> writer[i]]

(* ------------------------------ operations ----------------------------- *)
\* New(), called by the program
New ==
    /\ ~panicked
    /\ "d1" \notin alive
    /\ LET d == NewDabugger(linePrefix["def"])
       IN  /\ alive' = alive \cup {"d1"}
           /\ writer' = [writer EXCEPT !["d1"] = d.writer]
           /\ autoFlush' = [autoFlush EXCEPT !["d1"] = d.autoFlush]
           /\ stackSkips' = [stackSkips EXCEPT !["d1"] = d.stackSkips]
           /\ linePrefix' = [linePrefix EXCEPT !["d1"] = d.linePrefix]
    /\ last' = Call("New", "d1", None)
    /\ UNCHANGED thr
    /\ UNCHANGED <<ncalls, lines, linesMutex, contexts, sink, alloc, panicked>>

\* Dabugger.Writer
Writer(i, w) ==
    /\ Running(i)
    /\ Counted
    /\ writer' = [writer EXCEPT ![i] = w]
    /\ last' = Call("Writer", i, w)
    /\ UNCHANGED thr
    /\ UNCHANGED <<alive, lines, linesMutex, contexts, linePrefix, autoFlush, stackSkips, sink,
                   alloc, panicked>>

\* Dabugger.LinePrefix
LinePrefix(i, p) ==
    /\ Running(i)
    /\ Counted
    /\ linePrefix' = [linePrefix EXCEPT ![i] = p]
    /\ last' = Call("LinePrefix", i, None)
    /\ UNCHANGED thr
    /\ UNCHANGED <<alive, lines, linesMutex, contexts, writer, autoFlush, stackSkips, sink,
                   alloc, panicked>>

\* an AutoFlush that flushes the instance whose pending lines it looks at
AutoFlushOfDefault(i, flush) ==
    /\ Running(i)
    /\ Counted
    /\ autoFlush' = [autoFlush EXCEPT ![i] = flush]
    /\ Becomes(i, IF Len(lines["def"]) > 0 THEN FlushSt("def", Here0) ELSE Here0)
    /\ last' = Call("AutoFlush", i, IF flush THEN "true" ELSE "false")
    /\ UNCHANGED thr
    /\ UNCHANGED <<alive, linesMutex, contexts, writer, linePrefix, stackSkips, panicked>>

\* Dabugger.AutoFlush: the pending lines it looks at are the default instance's
AutoFlush(i, flush) ==
    /\ Running(i)
    /\ Counted
    /\ autoFlush' = [autoFlush EXCEPT ![i] = flush]
    /\ Becomes(i, IF Len(lines["def"]) > 0 THEN FlushSt(i, Here0) ELSE Here0)
    /\ last' = Call("AutoFlush", i, IF flush THEN "true" ELSE "false")
    /\ UNCHANGED thr
    /\ UNCHANGED <<alive, linesMutex, contexts, writer, linePrefix, stackSkips, panicked>>

\* Dabugger.Msg
Msg(i, site, m) ==
    /\ Running(i)
    /\ Becomes(i, appendMsg(i, Here0, m, CallStack(i = "def", "Msg", site)))
    /\ last' = Call("Msg", i, None)
    /\ UNCHANGED thr
    /\ UNCHANGED <<ncalls, alive, linesMutex, contexts, writer, linePrefix, autoFlush, stackSkips, panicked>>

\* Dabugger.Here
Here(i, site) ==
    /\ Running(i)
    /\ Becomes(i, appendMsg(i, Here0, <<>>, CallStack(i = "def", "Here", site)))
    /\ last' = Call("Here", i, None)
    /\ UNCHANGED thr
    /\ UNCHANGED <<ncalls, alive, linesMutex, contexts, writer, linePrefix, autoFlush, stackSkips, panicked>>

RECURSIVE ObjsMsgs(_, _)
\* the loop of Objs: "[i] %#v" of things[0..k-1]
ObjsMsgs(things, k) ==
    IF k = 0 THEN <<>>
    ELSE Append(ObjsMsgs(things, k - 1), <<"[">> \o Itoa(k - 1) \o <<"]", SP>> \o things[k])

\* Dabugger.Objs
Objs(i, site, things) ==
    /\ Running(i)
    /\ Becomes(i, appendMsg(i, Here0, Join(ObjsMsgs(things, Len(things)), <<",", SP>>),
                         CallStack(i = "def", "Objs", site)))
    /\ last' = Call("Objs", i, None)
    /\ UNCHANGED thr
    /\ UNCHANGED <<ncalls, alive, linesMutex, contexts, writer, linePrefix, autoFlush, stackSkips, panicked>>

RECURSIVE StackLoopWholeStack(_, _, _, _, _, _)
\* a loop of Stack without the break
StackLoopWholeStack(i, st, stackLines, k, num, stack) ==
    IF k > Len(stackLines) THEN st
    ELSE StackLoopWholeStack(i, appendMsg(i, st, stackLines[k], stack), stackLines, k + 1, num, stack)

RECURSIVE StackLoop(_, _, _, _, _, _)
\* the loop of Stack from index k - 1 on
StackLoop(i, st, stackLines, k, num, stack) ==
    IF k > Len(stackLines) THEN st
    ELSE LET st2 == appendMsg(i, st, stackLines[k], stack)
         IN  IF num > 0 /\ k >= num THEN st2
             ELSE StackLoop(i, st2, stackLines, k + 1, num, stack)

\* Dabugger.Stack
Stack(i, site, text, num) ==
    /\ Running(i)
    /\ Becomes(i, StackLoop(i, Here0, Split(text), 1, num, CallStack(i = "def", "Stack", site)))
    /\ last' = Call("Stack", i, IF num > 0 THEN "first" ELSE "all")
    /\ UNCHANGED thr
    /\ UNCHANGED <<ncalls, alive, linesMutex, contexts, writer, linePrefix, autoFlush, stackSkips, panicked>>

\* Dabugger.AddContext
AddContext(i, key, value) ==
    /\ Running(i)
    /\ Counted
    /\ contexts' = [contexts EXCEPT ![i] = Append(@, [key |-> key, value |-> value])]
    /\ last' = Call("AddContext", i, key)
    /\ UNCHANGED thr
    /\ UNCHANGED <<alive, lines, linesMutex, writer, linePrefix, autoFlush, stackSkips, sink,
                   alloc, panicked>>

RECURSIVE WithoutNewest(_, _, _)
\* a loop that drops only the most recent entry with the key
WithoutNewest(cs, k, key) ==
    IF k = 0 THEN <<>>
    ELSE IF cs[k].key # key THEN Append(WithoutNewest(cs, k - 1, key), cs[k])
    ELSE SubSeq(cs, 1, k - 1)

RECURSIVE Without(_, _, _)
\* the loop of RemoveContext over l.contexts[0..k-1]
Without(cs, k, key) ==
    IF k = 0 THEN <<>>
    ELSE IF cs[k].key # key THEN Append(Without(cs, k - 1, key), cs[k])
    ELSE Without(cs, k - 1, key)

\* Dabugger.RemoveContext
RemoveContext(i, key) ==
    /\ Running(i)
    /\ Counted
    /\ contexts' = [contexts EXCEPT ![i] = Without(@, Len(@), key)]
    /\ last' = Call("RemoveContext", i, key)
    /\ UNCHANGED thr
    /\ UNCHANGED <<alive, lines, linesMutex, writer, linePrefix, autoFlush, stackSkips, sink,
                   alloc, panicked>>

\* Dabugger.RemoveAllContext
RemoveAllContext(i) ==
    /\ Running(i)
    /\ Counted
    /\ contexts' = [contexts EXCEPT ![i] = <<>>]
    /\ last' = Call("RemoveAllContext", i, None)
    /\ UNCHANGED thr
    /\ UNCHANGED <<alive, lines, linesMutex, writer, linePrefix, autoFlush, stackSkips, sink,
                   alloc, panicked>>

\* the slice expression d.contexts[:len(d.contexts)-1] panics when the bound is -1
SliceTop(cs) ==
    IF Len(cs) - 1 < 0 THEN [panic |-> TRUE, value |-> cs]
    ELSE [panic |-> FALSE, value |-> SubSeq(cs, 1, Len(cs) - 1)]

\* Dabugger.RemoveTopContext
RemoveTopContext(i) ==
    /\ Running(i)
    /\ Counted
    /\ contexts' = [contexts EXCEPT ![i] = SliceTop(@).value]
    /\ panicked' = SliceTop(contexts[i]).panic
    /\ last' = Call("RemoveTopContext", i, None)
    /\ UNCHANGED thr
    /\ UNCHANGED <<alive, lines, linesMutex, writer, linePrefix, autoFlush, stackSkips, sink,
                   alloc>>

\* a Flush that also empties the context stack
FlushClearingContexts(i) ==
    /\ Running(i)
    /\ Becomes(i, FlushSt(i, Here0))
    /\ contexts' = [contexts EXCEPT ![i] = <<>>]
    /\ last' = Call("Flush", i, None)
    /\ UNCHANGED thr
    /\ UNCHANGED <<ncalls, alive, linesMutex, writer, linePrefix, autoFlush, stackSkips, panicked>>

\* Dabugger.Flush
Flush(i) ==
    /\ Running(i)
    /\ Becomes(i, FlushSt(i, Here0))
    /\ last' = Call("Flush", i, None)
    /\ UNCHANGED thr
    /\ UNCHANGED <<ncalls, alive, linesMutex, contexts, writer, linePrefix, autoFlush, stackSkips, panicked>>

(* ------------------------- concurrent callers -------------------------- *)
\* The same methods, one statement at a time, called by concurrent threads.

Goto(t, label) == pc' = [pc EXCEPT ![t] = label]
Return(t) == pc' = [pc EXCEPT ![t] = "idle"] /\ loc' = [loc EXCEPT ![t] = Idle]

\* a Lock that never waits
MutexIgnored(i) == TRUE

\* d.linesMutex.Lock() returns only when no thread holds the mutex
MutexFree(i) == linesMutex[i] = None

\* Dabugger.Msg up to the test of d.autoFlush: appendMsg builds the line, genPrefix
\* fills in its prefix
TMsg(t, i, site, m) ==
    /\ Running(i)
    /\ pc[t] = "idle"
    /\ nlines < MaxLines
    /\ nlines' = nlines + 1
    /\ madeFor' = Append(madeFor, writer[i])
    /\ LET src == getSource(i, CallStack(i = "def", "Msg", site))
       IN  loc' = [loc EXCEPT ![t] = [inst |-> i, tmp |-> <<>>,
                       line |-> [ptr |-> nlines + 1, msg |-> m, src |-> src,
                                 prefix |-> genPrefix(i, src)]]]
    /\ Goto(t, "checkAuto")
    /\ UNCHANGED <<alive, lines, linesMutex, contexts, writer, linePrefix, autoFlush, stackSkips,
                   sink, ncalls, panicked, last, buffered>>

\* appendLine: if d.autoFlush { d.flushLine(line); return }
TCheckAuto(t) ==
    /\ ~panicked
    /\ pc[t] = "checkAuto"
    /\ IF autoFlush[loc[t].inst]
       THEN /\ sink' = flushLine(loc[t].inst, sink, loc[t].line)
            /\ Return(t)
            /\ UNCHANGED buffered
       ELSE /\ buffered' = buffered \cup {loc[t].line.ptr}
            /\ Goto(t, "lockA")
            /\ UNCHANGED <<sink, loc>>
    /\ UNCHANGED <<alive, lines, linesMutex, contexts, writer, linePrefix, autoFlush, stackSkips,
                   alloc, ncalls, panicked, last>>

\* d.linesMutex.Lock() in appendLine and in Flush
TLock(t) ==
    /\ ~panicked
    /\ pc[t] \in {"lockA", "lockF"}
    /\ MutexFree(loc[t].inst)
    /\ linesMutex' = [linesMutex EXCEPT ![loc[t].inst] = t]
    /\ Goto(t, IF pc[t] = "lockA" THEN "append" ELSE "fcheck")
    /\ UNCHANGED <<alive, lines, contexts, writer, linePrefix, autoFlush, stackSkips, sink,
                   alloc, ncalls, panicked, last, loc, buffered>>

\* appendLine: append(d.lines, line) reads the slice ...
TAppendRead(t) ==
    /\ ~panicked
    /\ pc[t] = "append"
    /\ loc' = [loc EXCEPT ![t].tmp = lines[loc[t].inst]]
    /\ Goto(t, "store")
    /\ UNCHANGED <<alive, lines, linesMutex, contexts, writer, linePrefix, autoFlush, stackSkips,
                   sink, alloc, ncalls, panicked, last, buffered>>

\* ... and d.lines = stores the longer one
TAppendStore(t) ==
    /\ ~panicked
    /\ pc[t] = "store"
    /\ lines' = [lines EXCEPT ![loc[t].inst] = Append(loc[t].tmp, loc[t].line)]
    /\ Goto(t, "unlock")
    /\ UNCHANGED <<alive, linesMutex, contexts, writer, linePrefix, autoFlush, stackSkips,
                   sink, alloc, ncalls, panicked, last, loc, buffered>>

\* the deferred d.linesMutex.Unlock(), and the return
TUnlock(t) ==
    /\ ~panicked
    /\ pc[t] = "unlock"
    /\ linesMutex' = [linesMutex EXCEPT ![loc[t].inst] = None]
    /\ Return(t)
    /\ UNCHANGED <<alive, lines, contexts, writer, linePrefix, autoFlush, stackSkips, sink,
                   alloc, ncalls, panicked, last, buffered>>

\* a thread enters Dabugger.Flush
TFlush(t, i) ==
    /\ Running(i)
    /\ pc[t] = "idle"
    /\ loc' = [loc EXCEPT ![t] = [inst |-> i]]
    /\ Goto(t, "lockF")
    /\ UNCHANGED <<alive, lines, linesMutex, contexts, writer, linePrefix, autoFlush, stackSkips,
                   sink, alloc, ncalls, panicked, last, buffered>>

\* a Flush whose early return on an empty list leaves the mutex locked
TFlushWriteReturnsLocked(t) ==
    /\ ~panicked
    /\ pc[t] = "fcheck"
    /\ LET i == loc[t].inst
       IN  IF Len(lines[i]) = 0
           THEN Return(t) /\ UNCHANGED sink
           ELSE /\ sink' = WriteTo(sink, writer[i], Block(i, lines[i]), Ptrs(lines[i]), TRUE)
                /\ Goto(t, "fclear")
                /\ UNCHANGED loc
    /\ UNCHANGED <<alive, lines, linesMutex, contexts, writer, linePrefix, autoFlush, stackSkips,
                   alloc, ncalls, panicked, last, buffered>>

\* Flush, the mutex held: the test of len(d.lines), the rendering and the write
TFlushWrite(t) ==
    /\ ~panicked
    /\ pc[t] = "fcheck"
    /\ LET i == loc[t].inst
       IN  IF Len(lines[i]) = 0
           THEN Goto(t, "unlock") /\ UNCHANGED sink
           ELSE /\ sink' = WriteTo(sink, writer[i], Block(i, lines[i]), Ptrs(lines[i]), TRUE)
                /\ Goto(t, "fclear")
    /\ UNCHANGED <<alive, lines, linesMutex, contexts, writer, linePrefix, autoFlush, stackSkips,
                   alloc, ncalls, panicked, last, loc, buffered>>

\* Flush: d.clearLines()
TFlushClear(t) ==
    /\ ~panicked
    /\ pc[t] = "fclear"
    /\ lines' = clearLines(loc[t].inst, lines)
    /\ Goto(t, "unlock")
    /\ UNCHANGED <<alive, linesMutex, contexts, writer, linePrefix, autoFlush, stackSkips,
                   sink, alloc, ncalls, panicked, last, loc, buffered>>

\* Dabugger.AutoFlush: d.autoFlush = flush
TAutoFlush(t, i, flush) ==
    /\ Running(i)
    /\ pc[t] = "idle"
    /\ Counted
    /\ autoFlush' = [autoFlush EXCEPT ![i] = flush]
    /\ loc' = [loc EXCEPT ![t] = [inst |-> i]]
    /\ Goto(t, "acheck")
    /\ UNCHANGED <<alive, lines, linesMutex, contexts, writer, linePrefix, stackSkips,
                   sink, alloc, panicked, last, buffered>>

\* AutoFlush: if len(defDabugger.lines) > 0 { d.Flush() }, read without the mutex
TAutoFlushCheck(t) ==
    /\ ~panicked
    /\ pc[t] = "acheck"
    /\ IF Len(lines["def"]) > 0
       THEN Goto(t, "lockF") /\ UNCHANGED loc
       ELSE Return(t)
    /\ UNCHANGED <<alive, lines, linesMutex, contexts, writer, linePrefix, autoFlush, stackSkips,
                   sink, alloc, ncalls, panicked, last, buffered>>

(* ------------------------------ properties ----------------------------- *)
LastOf(seq) == seq[Len(seq)]

HasSuffix(s, x) == Len(x) <= Len(s) /\ SubSeq(s, Len(s) - Len(x) + 1, Len(s)) = x

OnlySpaces(s) == \A k \in 1..Len(s) : s[k] = SP

\* this step is a call of op on instance i
Called(op, i) == last'.op = op /\ last'.inst = i

\* this step is a call of one of the emitting entry points on instance i
Emits(i) == \E op \in {"Msg", "Here"} : Called(op, i)

\* the write w received in this step, when it received exactly one
Received(w) == LastOf(sink'[w])
OneWriteTo(w) ==
    /\ Len(sink'[w]) = Len(sink[w]) + 1
    /\ SubSeq(sink'[w], 1, Len(sink[w])) = sink[w]
    /\ \A v \in Writers \ {w} : sink'[v] = sink[v]

\* segment seg of a block renders line l: its prefix, padding, and "- " and the
\* message when there is one
RendersLine(seg, l) ==
    /\ HasPrefix(seg, l.prefix)
    /\ IF l.msg = <<>>
       THEN OnlySpaces(SubSeq(seg, Len(l.prefix) + 1, Len(seg)))
       ELSE /\ HasSuffix(seg, <<"-", SP>> \o l.msg)
            /\ OnlySpaces(SubSeq(seg, Len(l.prefix) + 1, Len(seg) - Len(l.msg) - 2))

\* C1: on every instance, AutoFlush(true) called while the instance has pending
\* lines writes them to the sink as one flushed block before it returns and
\* leaves the instance's pending list empty.
C1_AutoFlushDrainsPending ==
    [][\A i \in Inst :
         (Called("AutoFlush", i) /\ autoFlush'[i] /\ lines[i] # <<>>) =>
             /\ lines'[i] = <<>>
             /\ OneWriteTo(writer[i])
             /\ Received(writer[i]).block
             /\ Received(writer[i]).ptrs = Ptrs(lines[i])]_vars

\* C2: in every reachable state the pending list of an instance is non-empty
\* only when its autoFlush is false.
C2_PendingOnlyWhenBuffered == \A i \in Inst : lines[i] # <<>> => ~autoFlush[i]

\* C3: RemoveTopContext called on an empty context stack does not panic and
\* leaves the stack empty.
C3_RemoveTopOnEmptyIsNoOp ==
    [][\A i \in Inst :
         (Called("RemoveTopContext", i) /\ contexts[i] = <<>>) =>
             (~panicked' /\ contexts'[i] = <<>>)]_vars

\* C4: in buffered mode an emit writes nothing and appends one line; Flush with
\* N >= 1 pending lines (of messages without a newline) then makes a single
\* write of exactly N+2 newline-terminated segments: the begin delimiter, the N
\* lines in the order they were appended, the end delimiter; and the pending
\* list is empty afterwards.
C4_BufferedThenFlushedBlock ==
    [][\A i \in Inst :
         /\ (Emits(i) /\ ~autoFlush[i]) =>
                /\ sink' = sink
                /\ Len(lines'[i]) = Len(lines[i]) + 1
                /\ SubSeq(lines'[i], 1, Len(lines[i])) = lines[i]
         /\ (Called("Flush", i) /\ lines[i] # <<>>) =>
                /\ OneWriteTo(writer[i])
                /\ \E n \in {Len(lines[i])}, parts \in {Split(Received(writer[i]).text)} :
                       /\ Len(parts) = n + 3
                       /\ parts[n + 3] = <<>>
                       /\ HasSuffix(parts[1], sectionBeg)
                       /\ \A k \in 1..n : RendersLine(parts[k + 1], lines[i][k])
                       /\ HasSuffix(parts[n + 2], sectionEnd)
                /\ lines'[i] = <<>>]_vars

\* two lines that render differently were buffered and then flushed as one block
C4_Witness ==
    /\ last.op = "Flush"
    /\ last.pre = 2
    /\ lines[last.inst] = <<>>
    /\ LET b == LastOf(sink[writer[last.inst]])
       IN  b.block /\ Len(b.ptrs) = 2 /\ Len(Split(b.text)) = 5
           /\ Split(b.text)[2] # Split(b.text)[3]

\* C5: Flush on an instance whose pending list is empty writes nothing, not even
\* the delimiters, and changes no state of any instance.
C5_FlushOfNothingIsNoOp ==
    [][\A i \in Inst : (Called("Flush", i) /\ lines[i] = <<>>) => UNCHANGED prog]_vars

\* Flush was called with nothing pending, both right after a flush and on an
\* instance that never buffered
C5_Witness ==
    /\ last.op = "Flush"
    /\ last.pre = 0
    /\ \E w \in Writers : sink[w] # <<>> /\ LastOf(sink[w]).block

\* the thread that created line object p has not yet stored it in d.lines
InAppend(p) ==
    \E t \in Threads : pc[t] \in {"checkAuto", "lockA", "append", "store"} /\ loc[t].line.ptr = p

\* a Flush of instance i has written its block and is about to clear d.lines
Clearing(i) == \E t \in Threads : pc[t] = "fclear" /\ loc[t].inst = i

\* the places of line object p in the pending lists (those of a list that is
\* about to be cleared are rendered already), and in the writes made
PendingAt(p) ==
    {e \in UNION {{<<i, k>> : k \in 1..Len(lines[i])} : i \in Inst} :
        lines[e[1]][e[2]].ptr = p /\ ~Clearing(e[1])}
RenderedAt(p) ==
    {e \in UNION {{<<w, n>> : n \in 1..Len(sink[w])} : w \in Writers} :
        \E k \in 1..Len(sink[e[1]][e[2]].ptrs) : sink[e[1]][e[2]].ptrs[k] = p}
TimesRendered(p, e) ==
    Cardinality({k \in 1..Len(sink[e[1]][e[2]].ptrs) : sink[e[1]][e[2]].ptrs[k] = p})

\* C6: under any interleaving of concurrent emits and Flush calls, a line that
\* took the buffered path is, once its append has completed, either pending or
\* rendered in exactly one flushed block, exactly once (never lost by a
\* concurrent clear, never rendered twice); before its append has completed it
\* is neither pending nor rendered.
C6_BufferedLineRenderedExactlyOnce ==
    \A p \in buffered :
        /\ \A e \in RenderedAt(p) : sink[e[1]][e[2]].block /\ TimesRendered(p, e) = 1
        /\ Cardinality(PendingAt(p)) + Cardinality(RenderedAt(p)) = IF InAppend(p) THEN 0 ELSE 1

\* a thread waits for the mutex with its line while another thread, having
\* written a block, is about to clear the pending list of the same instance
C6_Witness ==
    \E t1, t2 \in Threads :
        /\ pc[t1] = "fclear"
        /\ pc[t2] = "lockA"
        /\ loc[t1].inst = loc[t2].inst
        /\ loc[t2].line.ptr \in buffered

\* this step is a call of one of the context operations on instance i
CtxOp(i) ==
    \E op \in {"AddContext", "RemoveContext", "RemoveAllContext", "RemoveTopContext"} :
        Called(op, i)

Contains(s, c) == \E k \in 1..Len(s) : s[k] = c

\* C7: the prefix of a buffered line is fixed when the line is appended: it
\* carries the context list of that moment, no context operation changes a
\* pending line, and Flush renders each line with the prefix stored in it.
C7_PrefixFixedAtAppend ==
    [][\A i \in Inst :
         /\ (Emits(i) /\ ~autoFlush[i]) =>
                HasSuffix(LastOf(lines'[i]).prefix, CtxString(contexts[i]) \o <<SP>>)
         /\ CtxOp(i) => lines' = lines
         /\ (Called("Flush", i) /\ lines[i] # <<>>) =>
                \E parts \in {Split(Received(writer[i]).text)} :
                    \A k \in 1..Len(lines[i]) : HasPrefix(parts[k + 1], lines[i][k].prefix)]_vars

\* a block was flushed that shows a context list although the context stack
\* had been emptied before the flush
C7_Witness ==
    /\ last.op = "Flush"
    /\ last.pre > 0
    /\ contexts[last.inst] = <<>>
    /\ Contains(LastOf(sink[writer[last.inst]]).text, "(")

\* C8: each buffered line carries the line prefix that is current when it is
\* appended, a later LinePrefix call does not change it, and both delimiter
\* lines of the block carry the line prefix that is current at flush time.
C8_PrefixAtAppendAndAtFlush ==
    [][\A i \in Inst :
         /\ (Emits(i) /\ ~autoFlush[i]) => HasPrefix(LastOf(lines'[i]).prefix, linePrefix[i])
         /\ Called("LinePrefix", i) => lines' = lines
         /\ (Called("Flush", i) /\ lines[i] # <<>>) =>
                \E n \in {Len(lines[i])}, parts \in {Split(Received(writer[i]).text)} :
                    /\ parts[1] = linePrefix[i] \o sectionBeg
                    /\ parts[n + 2] = linePrefix[i] \o sectionEnd
                    /\ \A k \in 1..n : HasPrefix(parts[k + 1], lines[i][k].prefix)]_vars

\* LinePrefix was changed between two buffered appends, and the block shows the
\* old prefix on the first line and the new one on the second line and on both
\* delimiters
C8_Witness ==
    /\ last.op = "Flush"
    /\ last.pre = 2
    /\ LET parts == Split(LastOf(sink[writer[last.inst]]).text)
       IN  /\ parts[1] = <<"P">> \o sectionBeg
           /\ HasPrefix(parts[2], DefaultLinePrefix)
           /\ HasPrefix(parts[3], <<"P">>)
           /\ parts[4] = <<"P">> \o sectionEnd

\* C9, as claimed: every line is delivered to the writer that was configured
\* when the line was produced.
C9_DeliveredToWriterAtProduction ==
    \A w \in Writers : \A n \in 1..Len(sink[w]) : \A k \in 1..Len(sink[w][n].ptrs) :
        madeFor[sink[w][n].ptrs[k]] = w

\* C9, amended: Writer and LinePrefix write nothing and change no pending line;
\* Flush delivers all the pending lines, whatever writer was configured when
\* they were produced, in one block to the writer configured at flush time.
C9_WriterTakesEffectAtFlush ==
    [][\A i \in Inst :
         /\ Called("Writer", i) => (lines' = lines /\ sink' = sink)
         /\ Called("LinePrefix", i) => (lines' = lines /\ sink' = sink)
         /\ (Called("Flush", i) /\ lines[i] # <<>>) =>
                /\ OneWriteTo(writer[i])
                /\ Received(writer[i]).block
                /\ Received(writer[i]).ptrs = Ptrs(lines[i])
                /\ lines'[i] = <<>>]_vars

\* a line produced while stdout was configured was delivered to w2 by a flush
C9_Witness ==
    /\ last.op = "Flush"
    /\ last.pre > 0
    /\ writer[last.inst] = "w2"
    /\ LET b == LastOf(sink["w2"])
       IN  b.block /\ \E k \in 1..Len(b.ptrs) : madeFor[b.ptrs[k]] = "stdout"

\* the context part as the documentation describes it
CtxPairs(cs) == [k \in 1..Len(cs) |-> <<cs[k].key, ":", cs[k].value>>]
CtxExpected(cs) ==
    IF cs = <<>> THEN <<>> ELSE <<SP, "(">> \o Join(CtxPairs(cs), <<",", SP>>) \o <<")">>

\* C10: the prefix of an emitted line is the line prefix, the source location,
\* then the context part, then a space; the context part lists exactly the
\* entries of the context stack at emit time as key:value in push order,
\* separated by ", " and wrapped in " (" and ")", and is absent when the stack
\* is empty.
C10_ContextPartOfPrefix ==
    [][\A i \in Inst :
         Called("Msg", i) =>
             \E site \in Sites, m \in Msgs :
                 LET src  == getSource(i, CallStack(i = "def", "Msg", site))
                     want == linePrefix[i] \o SourceString(src) \o CtxExpected(contexts[i])
                             \o <<SP>>
                 IN  IF autoFlush[i]
                     THEN Received(writer[i]).text = want \o <<"-", SP>> \o m \o <<NL>>
                     ELSE LastOf(lines'[i]).prefix = want]_vars

\* a message was emitted under two contexts with different keys
C10_Witness ==
    /\ last.op = "Msg"
    /\ Len(contexts[last.inst]) = 2
    /\ contexts[last.inst][1].key # contexts[last.inst][2].key
    /\ \E w \in Writers : sink[w] # <<>> /\ Contains(LastOf(sink[w]).text, ",")

Infix(s, sub) == \E k \in 0..(Len(s) - Len(sub)) : SubSeq(s, k + 1, k + Len(sub)) = sub

\* this step is a call of one of the logging entry points on instance i
Logs(i) == \E op \in {"Msg", "Here", "Objs", "Stack"} : Called(op, i)

\* C12: a step changes a context stack only when it is a call of AddContext,
\* RemoveContext, RemoveAllContext or RemoveTopContext: the emits, Flush,
\* AutoFlush, Writer and LinePrefix leave every stack as it was; and every line
\* emitted while the stack is non-empty, before or after a flush, carries the
\* context part of that stack.
C12_ContextsChangeOnlyByContextOps ==
    [][/\ contexts' # contexts => \E i \in Inst : CtxOp(i)
       /\ \A i \in Inst :
             (Logs(i) /\ contexts[i] # <<>>) =>
                 /\ \A k \in (Len(lines[i]) + 1)..Len(lines'[i]) :
                        Infix(lines'[i][k].prefix, CtxString(contexts[i]))
                 /\ \A w \in Writers : \A n \in (Len(sink[w]) + 1)..Len(sink'[w]) :
                        Infix(sink'[w][n].text, CtxString(contexts[i]))]_vars

\* under a context pushed earlier a line was emitted and flushed, and the line
\* emitted after the flush carries the context too
C12_Witness ==
    /\ last.op \in {"Msg", "Here", "Objs", "Stack"}
    /\ last.pre = 0
    /\ contexts[last.inst] # <<>>
    /\ Len(lines[last.inst]) = 1
    /\ Contains(lines[last.inst][1].prefix, "(")
    /\ \E w \in Writers : \E n \in 1..Len(sink[w]) :
          sink[w][n].block /\ Contains(sink[w][n].text, "(")

\* C13: the default instance starts with auto-flush enabled and a non-empty
\* line prefix; New() returns an instance with auto-flush disabled and the line
\* prefix the default instance has at that moment, and leaves the default
\* instance as it was; a LinePrefix call on one instance does not change the
\* line prefix of the other.
C13_DefaultAndConstructedStart ==
    /\ autoFlush["def"] /\ linePrefix["def"] # <<>>
    /\ [][/\ Called("New", "d1") =>
                /\ ~autoFlush'["d1"]
                /\ linePrefix'["d1"] = linePrefix["def"]
                /\ autoFlush'["def"] = autoFlush["def"]
                /\ linePrefix'["def"] = linePrefix["def"]
           /\ \A i \in Inst :
                 Called("LinePrefix", i) =>
                     \A j \in Inst \ {i} : linePrefix'[j] = linePrefix[j]]_vars

\* an instance was constructed while the default instance had its initial
\* prefix, and kept that prefix when LinePrefix was then called on the default
C13_Witness ==
    /\ last.op = "LinePrefix"
    /\ last.inst = "def"
    /\ "d1" \in alive
    /\ ~autoFlush["d1"]
    /\ linePrefix["def"] = <<"P">>
    /\ linePrefix["d1"] = DefaultLinePrefix

\* the last element of a path
BaseName(path) == SubSeq(path, LastSlash(path) + 1, Len(path))

\* a frame of the package's logging code or of the runtime, or no frame at all
InPackage(fn) ==
    \/ fn = <<>>
    \/ fn[1] \in {"Dabugger", "runtime"}
    \/ fn[1] = "dabug" /\ fn[2] \in {"Msg", "Here", "Objs", "Stack"}

\* what a line shows of call site `site`: the name of its file and its line
Shown(site) == BaseName(site.File) \o <<":">> \o Itoa(site.Line) \o <<SP>>

\* source src names call site `site`
Names(src, site) ==
    /\ src.Function = site.Function
    /\ src.Line = site.Line
    /\ HasSuffix(site.File, src.File)
    /\ HasSuffix(src.File, BaseName(site.File))

\* C14: the default instance skips exactly one frame more than a constructed
\* instance, and for every logging entry point (Msg, Here, Objs, Stack), called
\* through the package-level function on the default instance or as a method
\* on a constructed instance, every line produced records the frame of the
\* user's call site, never a frame of the package: a pending line holds the
\* site's function and line and a path of the site's file, a written line
\* shows the site's file name and line after the line prefix.
C14_SourceIsTheCallSite ==
    /\ stackSkips["def"] = NewStackSkips + 1
    /\ [][/\ "d1" \in alive' => stackSkips'["def"] = stackSkips'["d1"] + 1
           /\ \A i \in Inst :
                 Logs(i) =>
                     /\ \A k \in (Len(lines[i]) + 1)..Len(lines'[i]) :
                            /\ ~InPackage(lines'[i][k].src.Function)
                            /\ \E site \in CallSites : Names(lines'[i][k].src, site)
                     /\ \A n \in (Len(sink[writer[i]]) + 1)..Len(sink'[writer[i]]) :
                            \E site \in CallSites :
                                \E rest \in {TrimPrefix(sink'[writer[i]][n].text, linePrefix[i])} :
                                    \/ HasPrefix(rest, Shown(site))
                                    \/ HasPrefix(rest, TrimPrefix(site.File, <<"/">>)
                                                        \o <<":">> \o Itoa(site.Line) \o <<SP>>)]_vars

\* the default instance has written a line through a package-level function
\* and a constructed instance holds a line of a method call, and both name
\* the user's call site
C14_Witness ==
    /\ last.op \in {"Msg", "Here", "Objs", "Stack"}
    /\ "d1" \in alive
    /\ lines["d1"] # <<>>
    /\ \E site \in Sites : Names(lines["d1"][1].src, site)
    /\ sink["stdout"] # <<>>
    /\ \E site \in Sites : Infix(sink["stdout"][1].text, Shown(site))

\* the lesser of two numbers
Min(a, b) == IF a < b THEN a ELSE b

EmitsOne(i) == \E op \in {"Msg", "Here", "Objs"} : Called(op, i)

\* C16: in auto-flush mode every call of Msg, Here or Objs (of a message without
\* a newline) makes exactly one write to the instance's writer, after all the
\* writes made before, of exactly one newline-terminated line that renders the
\* new line object and is not a delimiter, writes to no other writer, and
\* leaves every pending list as it was.
C16_AutoFlushWritesOneLinePerEmit ==
    [][\A i \in Inst :
         (EmitsOne(i) /\ autoFlush[i]) =>
             /\ lines' = lines
             /\ OneWriteTo(writer[i])
             /\ ~Received(writer[i]).block
             /\ Received(writer[i]).ptrs = <<nlines + 1>>
             /\ \E parts \in {Split(Received(writer[i]).text)} :
                    /\ Len(parts) = 2
                    /\ parts[2] = <<>>
                    /\ HasPrefix(parts[1], linePrefix[i])
                    /\ ~HasSuffix(parts[1], sectionBeg)
                    /\ ~HasSuffix(parts[1], sectionEnd)]_vars

\* two successive emits in auto-flush mode gave two writes of one line each,
\* in emit order
C16_Witness ==
    /\ last.op \in {"Msg", "Here", "Objs"}
    /\ autoFlush[last.inst]
    /\ \E w \in Writers :
          /\ Len(sink[w]) = 2
          /\ ~sink[w][1].block /\ sink[w][1].ptrs = <<1>>
          /\ ~sink[w][2].block /\ sink[w][2].ptrs = <<2>>
          /\ sink[w][1].text # sink[w][2].text

\* the prefix genPrefix gives a line of entry point `entry` on instance i
PrefixAt(i, entry) ==
    {genPrefix(i, getSource(i, CallStack(i = "def", entry, site))) : site \in Sites}

\* C17: a line emitted by Here renders as its prefix alone, without "- ": in
\* auto-flush mode the write is the prefix and a newline, in a flushed block the
\* segment is the prefix and the padding that aligns the block; a line with a
\* non-empty message renders as its prefix, in a block the padding, then "- "
\* and the message.
C17_HereRendersWithoutSuffix ==
    [][\A i \in Inst :
         /\ (Called("Here", i) /\ autoFlush[i]) =>
                /\ Received(writer[i]).text \in {p \o <<NL>> : p \in PrefixAt(i, "Here")}
                /\ ~Infix(Received(writer[i]).text, <<"-", SP>>)
         /\ (Called("Here", i) /\ ~autoFlush[i]) => LastOf(lines'[i]).msg = <<>>
         /\ (Called("Msg", i) /\ autoFlush[i]) =>
                Received(writer[i]).text
                    \in {p \o <<"-", SP>> \o m \o <<NL>> : p \in PrefixAt(i, "Msg"), m \in Msgs}
         /\ (Called("Msg", i) /\ ~autoFlush[i]) => LastOf(lines'[i]).msg \in Msgs
         /\ (Called("Flush", i) /\ lines[i] # <<>>) =>
                \E parts \in {Split(Received(writer[i]).text)} :
                    \A k \in 1..Len(lines[i]) :
                        /\ RendersLine(parts[k + 1], lines[i][k])
                        /\ lines[i][k].msg = <<>> => ~Infix(parts[k + 1], <<"-", SP>>)
                        /\ lines[i][k].msg # <<>> => Infix(parts[k + 1], <<SP, "-", SP>>)]_vars

\* a line of Here and a line with a message were flushed in one block: the
\* first segment has no "- ", the second has
C17_Witness ==
    /\ last.op = "Flush"
    /\ last.pre = 2
    /\ \E parts \in {Split(LastOf(sink[writer[last.inst]]).text)} :
          /\ Len(parts) = 5
          /\ ~Infix(parts[2], <<"-", SP>>)
          /\ Infix(parts[3], <<"-", SP>>)

\* the statements of a call during which its thread holds the mutex
Critical == {"append", "store", "unlock", "fcheck", "fclear"}

\* C18: with threads calling Msg, Flush and AutoFlush concurrently, a mutex is
\* held only by a thread that is between Lock and the deferred Unlock of a
\* call on that instance; every call that has started eventually returns, and
\* every mutex that is held is eventually released, on every path: the append,
\* the early return of Flush on an empty list, the Flush that writes, and the
\* Flush called from inside AutoFlush.
C18_EveryCallReturns ==
    /\ [](\A i \in Inst : \A t \in Threads :
             linesMutex[i] = t => (pc[t] \in Critical /\ loc[t].inst = i))
    /\ \A t \in Threads : (pc[t] # "idle") ~> (pc[t] = "idle")
    /\ \A i \in Inst : (linesMutex[i] # None) ~> (linesMutex[i] = None)

\* a thread waits for the mutex of an instance while another thread holds it
\* in a Flush that is about to take the early return on an empty list
C18_Witness ==
    \E t1, t2 \in Threads :
        /\ pc[t1] \in {"lockA", "lockF"}
        /\ pc[t2] = "fcheck"
        /\ loc[t1].inst = loc[t2].inst
        /\ linesMutex[loc[t2].inst] = t2
        /\ lines[loc[t2].inst] = <<>>

\* C19: Flush returns normally, without a panic, and leaves the pending list
\* of its instance empty, whether the write of the block succeeds or returns
\* an error; after a failed write nothing has been delivered and no other
\* state of the program has changed.
C19_FlushIgnoresWriteFailure ==
    [][\A i \in Inst :
         Called("Flush", i) =>
             /\ ~panicked'
             /\ lines'[i] = <<>>
             /\ writer[i] \in FailingWriters =>
                    /\ sink' = sink
                    /\ UNCHANGED <<alive, linesMutex, contexts, writer, linePrefix, autoFlush,
                                   stackSkips>>
                    /\ \A j \in Inst \ {i} : lines'[j] = lines[j]]_vars

\* Flush was called with two lines pending and a writer that fails: it has
\* returned, the list is empty and nothing was delivered
C19_Witness ==
    /\ last.op = "Flush"
    /\ last.pre = 2
    /\ writer[last.inst] \in FailingWriters
    /\ lines[last.inst] = <<>>
    /\ ~panicked
    /\ \A w \in Writers : sink[w] = <<>>

\* the line objects writer w has received, in the order it received them
RECURSIVE Delivered(_, _)
Delivered(w, n) == IF n = 0 THEN <<>> ELSE Delivered(w, n - 1) \o sink[w][n].ptrs

\* C20: with one instance driven by one thread, whatever the sequence of emits,
\* Flush calls and AutoFlush switches, the lines reach the sink in the order in
\* which they were emitted (line objects are numbered in emit order): no line
\* is written after a line that was emitted later.
C20_LinesWrittenInEmitOrder ==
    \A w \in Writers :
        \E d \in {Delivered(w, Len(sink[w]))} :
            \A j, k \in 1..Len(d) : j < k => d[j] < d[k]

\* this step is a call on instance i (New is a call on the instance it returns)
CalledOn(i) == last'.inst = i /\ last'.op # "init"

\* C21: a call on one instance (an emit, Flush, AutoFlush, a context
\* operation, Writer, LinePrefix, and New for the instance it returns) leaves
\* the pending lines, the contexts, the writer, the line prefix and the
\* autoFlush flag of every other instance, the default instance included, as
\* they were.
C21_InstancesAreIsolated ==
    [][\A i \in Inst :
         CalledOn(i) =>
             \A j \in Inst \ {i} :
                 /\ lines'[j] = lines[j]
                 /\ contexts'[j] = contexts[j]
                 /\ writer'[j] = writer[j]
                 /\ linePrefix'[j] = linePrefix[j]
                 /\ autoFlush'[j] = autoFlush[j]]_vars

\* AutoFlush(true) was called on the constructed instance while the default
\* instance, in buffered mode, had a pending line: the call saw that line, and
\* the default instance still holds it
C21_Witness ==
    /\ last.op = "AutoFlush"
    /\ last.inst = "d1"
    /\ last.arg = "true"
    /\ autoFlush["d1"]
    /\ ~autoFlush["def"]
    /\ lines["def"] # <<>>

(* ---------------------------- specifications --------------------------- *)
\* the program configures instances, emits and flushes
Next ==
    \/ New
    \/ \E i \in Inst, w \in Writers \ {"stdout"} : Writer(i, w)
    \/ \E i \in Inst, p \in Prefixes : LinePrefix(i, p)
    \/ \E i \in Inst, b \in BOOLEAN : AutoFlush(i, b)
    \/ \E i \in Inst, site \in Sites, m \in Msgs : Msg(i, site, m)
    \/ \E i \in Inst : Flush(i)

Spec == Init /\ [][Next]_vars

\* the program emits one line at a time, switches modes and flushes
NextEmit ==
    \/ New
    \/ \E i \in Inst, b \in BOOLEAN : AutoFlush(i, b)
    \/ \E i \in Inst, site \in Sites, m \in Msgs : Msg(i, site, m)
    \/ \E i \in Inst, site \in Sites : Here(i, site)
    \/ \E i \in Inst, site \in Sites, things \in Things : Objs(i, site, things)
    \/ \E i \in Inst : Flush(i)

SpecEmit == Init /\ [][NextEmit]_vars

\* the program logs through every entry point, from call sites in two
\* directories, on the default instance and on a constructed one
NextSource ==
    \/ New
    \/ \E i \in Inst, site \in CallSites, m \in Msgs : Msg(i, site, m)
    \/ \E i \in Inst, site \in CallSites : Here(i, site)
    \/ \E i \in Inst, site \in CallSites, things \in Things : Objs(i, site, things)
    \/ \E i \in Inst, site \in CallSites, text \in StackDumps, num \in StackNums :
          Stack(i, site, text, num)

SpecSource == Init /\ [][NextSource]_vars

\* the program manages the context stacks, emits and flushes
NextCtx ==
    \/ New
    \/ \E i \in Inst, b \in BOOLEAN : AutoFlush(i, b)
    \/ \E i \in Inst, site \in Sites, m \in Msgs : Msg(i, site, m)
    \/ \E i \in Inst, key \in Keys, value \in Values : AddContext(i, key, value)
    \/ \E i \in Inst, key \in Keys : RemoveContext(i, key)
    \/ \E i \in Inst : RemoveAllContext(i)
    \/ \E i \in Inst : RemoveTopContext(i)
    \/ \E i \in Inst : Flush(i)

SpecCtx == Init /\ [][NextCtx]_vars

\* the program works with one constructed instance only: it emits, switches
\* modes and flushes
NextOrder ==
    \/ New
    \/ \E i \in {"d1"}, b \in BOOLEAN : AutoFlush(i, b)
    \/ \E i \in {"d1"}, site \in Sites, m \in Msgs : Msg(i, site, m)
    \/ \E i \in {"d1"}, site \in Sites : Here(i, site)
    \/ \E i \in {"d1"} : Flush(i)

SpecOrder == Init /\ [][NextOrder]_vars

\* the program uses two instances in every way: it configures them, manages
\* their contexts, emits and flushes
NextIso ==
    \/ New
    \/ \E i \in Inst, w \in Writers \ {"stdout"} : Writer(i, w)
    \/ \E i \in Inst, p \in Prefixes : LinePrefix(i, p)
    \/ \E i \in Inst, b \in BOOLEAN : AutoFlush(i, b)
    \/ \E i \in Inst, site \in Sites, m \in Msgs : Msg(i, site, m)
    \/ \E i \in Inst, key \in {"a"}, value \in Values : AddContext(i, key, value)
    \/ \E i \in Inst, key \in {"a"} : RemoveContext(i, key)
    \/ \E i \in Inst : RemoveAllContext(i)
    \/ \E i \in Inst : RemoveTopContext(i)
    \/ \E i \in Inst : Flush(i)

SpecIso == Init /\ [][NextIso]_vars

\* the program configures a writer that fails, emits and flushes
NextFail ==
    \/ New
    \/ \E i \in Inst, w \in FailingWriters : Writer(i, w)
    \/ \E i \in Inst, b \in BOOLEAN : AutoFlush(i, b)
    \/ \E i \in Inst, site \in Sites, m \in Msgs : Msg(i, site, m)
    \/ \E i \in Inst : Flush(i)

SpecFail == Init /\ [][NextFail]_vars

\* the program uses the package-level functions only: it pushes contexts,
\* configures, emits through every entry point and flushes
NextFrame ==
    \/ \E i \in Inst, key \in {"a"}, value \in Values : AddContext(i, key, value)
    \/ \E i \in Inst, w \in Writers \ {"stdout"} : Writer(i, w)
    \/ \E i \in Inst, p \in Prefixes : LinePrefix(i, p)
    \/ \E i \in Inst, b \in BOOLEAN : AutoFlush(i, b)
    \/ \E i \in Inst, site \in Sites, m \in Msgs : Msg(i, site, m)
    \/ \E i \in Inst, site \in Sites : Here(i, site)
    \/ \E i \in Inst, site \in Sites, things \in Things : Objs(i, site, things)
    \/ \E i \in Inst, site \in Sites, text \in StackTexts, num \in Nums : Stack(i, site, text, num)
    \/ \E i \in Inst : Flush(i)

SpecFrame == Init /\ [][NextFrame]_vars

RECURSIVE CtxStacks(_)
\* the context stacks of at most n entries
CtxStacks(n) ==
    IF n = 0 THEN {<<>>}
    ELSE CtxStacks(n - 1)
         \cup {Append(cs, [key |-> k, value |-> v]) :
                   cs \in {c \in CtxStacks(n - 1) : Len(c) = n - 1}, k \in Keys, v \in Values}

\* the state after the program has pushed contexts on the default instance
\* with AddContext
InitStack ==
    /\ contexts \in [Inst -> CtxStacks(MaxCtx)]
    /\ contexts["d1"] = <<>>
    /\ alive = {"def"}
    /\ lines = [i \in Inst |-> <<>>]
    /\ linesMutex = [i \in Inst |-> None]
    /\ writer = [i \in Inst |-> IF i = "def" THEN InitDefault.writer ELSE None]
    /\ linePrefix = [i \in Inst |-> IF i = "def" THEN InitDefault.linePrefix ELSE <<>>]
    /\ autoFlush = [i \in Inst |-> IF i = "def" THEN InitDefault.autoFlush ELSE FALSE]
    /\ stackSkips = [i \in Inst |-> IF i = "def" THEN InitDefault.stackSkips ELSE 0]
    /\ sink = [w \in Writers |-> <<>>]
    /\ nlines = 0
    /\ madeFor = <<>>
    /\ ncalls = 0
    /\ panicked = FALSE
    /\ last = [op |-> "init", inst |-> "def", pre |-> 0, ctx |-> 0, arg |-> None]
    /\ pc = [t \in Threads |-> "idle"]
    /\ loc = [t \in Threads |-> Idle]
    /\ buffered = {}

\* the program works on context stacks that hold entries already
NextStack ==
    \/ New
    \/ \E i \in Inst, site \in Sites, m \in Msgs : Msg(i, site, m)
    \/ \E i \in Inst, key \in Keys, value \in Values : AddContext(i, key, value)
    \/ \E i \in Inst, key \in Keys : RemoveContext(i, key)
    \/ \E i \in Inst : RemoveAllContext(i)
    \/ \E i \in Inst : RemoveTopContext(i)

SpecStack == InitStack /\ [][NextStack]_vars

\* threads emit, flush and switch modes concurrently
NextConc ==
    \/ New
    \/ \E t \in Threads, i \in Inst, site \in Sites, m \in Msgs : TMsg(t, i, site, m)
    \/ \E t \in Threads, i \in Inst : TFlush(t, i)
    \/ \E t \in Threads, i \in Inst, b \in BOOLEAN : TAutoFlush(t, i, b)
    \/ \E t \in Threads : TCheckAuto(t)
    \/ \E t \in Threads : TLock(t)
    \/ \E t \in Threads : TAppendRead(t)
    \/ \E t \in Threads : TAppendStore(t)
    \/ \E t \in Threads : TUnlock(t)
    \/ \E t \in Threads : TFlushWrite(t)
    \/ \E t \in Threads : TFlushClear(t)
    \/ \E t \in Threads : TAutoFlushCheck(t)

SpecConc == Init /\ [][NextConc]_vars

\* the statements of a started call that never wait
Runs(t) ==
    \/ TCheckAuto(t)
    \/ TAppendRead(t)
    \/ TAppendStore(t)
    \/ TUnlock(t)
    \/ TFlushWrite(t)
    \/ TFlushClear(t)
    \/ TAutoFlushCheck(t)

\* threads emit, flush and switch modes concurrently on the one instance that
\* exists, the default instance
NextShared ==
    \/ \E t \in Threads, i \in Inst, site \in Sites, m \in Msgs : TMsg(t, i, site, m)
    \/ \E t \in Threads, i \in Inst : TFlush(t, i)
    \/ \E t \in Threads, i \in Inst, b \in BOOLEAN : TAutoFlush(t, i, b)
    \/ \E t \in Threads : TCheckAuto(t)
    \/ \E t \in Threads : TLock(t)
    \/ \E t \in Threads : TAppendRead(t)
    \/ \E t \in Threads : TAppendStore(t)
    \/ \E t \in Threads : TUnlock(t)
    \/ \E t \in Threads : TFlushWrite(t)
    \/ \E t \in Threads : TFlushClear(t)
    \/ \E t \in Threads : TAutoFlushCheck(t)

\* The scheduler runs every thread that can run, and a thread that waits in
\* Lock gets the mutex when it is released again and again (sync.Mutex hands
\* the mutex to a waiter that has waited long: its starvation mode).
SpecShared ==
    /\ Init
    /\ [][NextShared]_vars
    /\ \A t \in Threads : WF_vars(Runs(t)) /\ SF_vars(TLock(t))

====
